---- MODULE Spec2Model ----
(***************************************************************************)
(* Model of yamlify_db.py (MemEA): the legacy-database to YAML converter.  *)
(* Strings are sequences of one-character strings, so that strip(), the    *)
(* regular expressions and re.split are modelled character by character.   *)
(* Python's None is the empty sequence <<>> and a present value x is the   *)
(* one-element sequence <<x>>.  A dict is the sequence of its entries      *)
(* [key, val] in insertion order (Python 3.7+ dict order).                 *)
(***************************************************************************)
EXTENDS Integers, Sequences, FiniteSets, TLC

(* ---------------------------------------------------------------------- *)
(* Bounds of the model                                                     *)
(* ---------------------------------------------------------------------- *)
MaxLines == 4
MaxTok == 4
MaxRaw == 5

(* ---------------------------------------------------------------------- *)
(* Characters                                                              *)
(* ---------------------------------------------------------------------- *)
Digit == {"0", "1", "2", "3", "4", "5", "6", "7", "8", "9"}
Letter == {"a", "b", "c", "d", "e", "f", "g", "h", "i", "j", "k", "l", "m",
           "n", "o", "p", "q", "r", "s", "t", "u", "v", "w", "x", "y", "z",
           "A", "B", "C", "D", "E", "F", "G", "H", "I", "J", "K", "L", "M",
           "N", "O", "P", "Q", "R", "S", "T", "U", "V", "W", "X", "Y", "Z"}
Space == {" ", "\t", "\n", "\r"}
WordChar == Letter \cup Digit \cup {"_"}

AllIn(s, S) == \A i \in 1..Len(s) : s[i] \in S

(* number of leading characters of s that belong to S *)
RECURSIVE Run(_, _)
Run(s, S) == IF s # <<>> /\ Head(s) \in S THEN 1 + Run(Tail(s), S) ELSE 0

Drop(s, n) == SubSeq(s, n + 1, Len(s))
Take(s, n) == SubSeq(s, 1, n)

(* number of trailing characters of s that belong to S *)
RECURSIVE RunBack(_, _)
RunBack(s, S) ==
    IF s # <<>> /\ s[Len(s)] \in S THEN 1 + RunBack(Take(s, Len(s) - 1), S) ELSE 0

(* str.lstrip / str.rstrip over a character set, str.strip() over whitespace *)
lstrip(s, S) == Drop(s, Run(s, S))
rstrip(s, S) == Take(s, Len(s) - RunBack(s, S))
strip(s) == rstrip(lstrip(s, Space), Space)

(* ---------------------------------------------------------------------- *)
(* Scalar values: Integer, Float, RawString                                *)
(* ---------------------------------------------------------------------- *)
RECURSIVE DigitsVal(_)
DigitsVal(d) ==
    IF d = <<>> THEN 0
    ELSE 10 * DigitsVal(Take(d, Len(d) - 1))
         + (CHOOSE n \in 0..9 : <<"0", "1", "2", "3", "4", "5", "6", "7", "8", "9">>[n + 1] = d[Len(d)])

HasSign(s) == s # <<>> /\ Head(s) \in {"+", "-"}
Unsigned(s) == IF HasSign(s) THEN Tail(s) ELSE s
IsNeg(s) == s # <<>> /\ Head(s) = "-"

(* a decimal fraction num / 10^scale in lowest decimal form *)
RECURSIVE Normalise(_, _)
Normalise(num, scale) ==
    IF scale > 0 /\ num % 10 = 0 THEN Normalise(num \div 10, scale - 1)
    ELSE <<num, scale>>

IntValue(n) == [kind |-> "int", neg |-> n < 0, num |-> IF n < 0 THEN -n ELSE n, scale |-> 0, text |-> <<>>]
FloatValue(neg, num, scale) ==
    [kind |-> "float", neg |-> neg, num |-> Normalise(num, scale)[1],
     scale |-> Normalise(num, scale)[2], text |-> <<>>]
StrValue(s) == [kind |-> "str", neg |-> FALSE, num |-> 0, scale |-> 0, text |-> s]

(* Python int(s) for a string matching [+-]?\d+ *)
int(s) == IntValue(IF IsNeg(s) THEN -DigitsVal(Unsigned(s)) ELSE DigitsVal(Unsigned(s)))

(* Python float(s) for a string matching the decimal pattern; -0.0 keeps its sign *)
float(s) ==
    LET u == Unsigned(s)
        ip == Run(u, Digit)
        frac == IF ip < Len(u) THEN Drop(u, ip + 1) ELSE <<>>
    IN FloatValue(IsNeg(s), DigitsVal(Take(u, ip) \o frac), Len(frac))

(* re.search(r"[eE]", s) *)
SearchExp(s) == \E i \in 1..Len(s) : s[i] \in {"e", "E"}

(* re.fullmatch(r"[+-]?\d+", s) *)
FullMatchInt(s) == LET u == Unsigned(s) IN u # <<>> /\ AllIn(u, Digit)

(* variant: the float pattern without the alternative for a leading "." *)
FullMatchFloatLeadingDigit(s) ==
    LET u == Unsigned(s)
        ip == Run(u, Digit)
        rest == Drop(u, ip)
    IN /\ ip >= 1
       /\ IF rest = <<>> THEN TRUE ELSE Head(rest) = "." /\ AllIn(Tail(rest), Digit)

\* re.fullmatch of the float pattern: optional sign, then digits "." digits
\* with at least one digit, or digits only
FullMatchFloat(s) ==
    LET u == Unsigned(s)
        ip == Run(u, Digit)
        rest == Drop(u, ip)
    IN IF rest = <<>> THEN ip >= 1
       ELSE /\ Head(rest) = "."
            /\ AllIn(Tail(rest), Digit)
            /\ IF ip >= 1 THEN TRUE ELSE Tail(rest) # <<>>

to_number(s0) ==
    LET s == rstrip(strip(s0), {","})
    IN IF SearchExp(s) THEN StrValue(s)
       ELSE IF FullMatchInt(s) THEN int(s)
       ELSE IF FullMatchFloat(s) THEN float(s)
       ELSE StrValue(s)

(* ---------------------------------------------------------------------- *)
(* parse_value_list                                                        *)
(* ---------------------------------------------------------------------- *)
(* index of the first "," of s, 0 if none *)
RECURSIVE FindComma(_)
FindComma(s) ==
    IF s = <<>> THEN 0
    ELSE IF Head(s) = "," THEN 1
    ELSE LET r == FindComma(Tail(s)) IN IF r = 0 THEN 0 ELSE r + 1

(* re.split on commas with surrounding whitespace: the leftmost match starts at the whitespace run
   that ends at the first comma and extends over the whitespace after it *)
RECURSIVE re_split(_)
re_split(s) ==
    LET c == FindComma(s)
    IN IF c = 0 THEN <<s>>
       ELSE LET before == Take(s, c - 1)
                after == Drop(s, c)
            IN <<rstrip(before, Space)>> \o re_split(lstrip(after, Space))

RECURSIVE MapToNumber(_)
MapToNumber(parts) ==
    IF parts = <<>> THEN <<>>
    ELSE <<to_number(Head(parts))>> \o MapToNumber(Tail(parts))

(* variant: the empty parts are not filtered out *)
KeepAllParts(parts) == parts

NonEmptyParts(parts) == SelectSeq(parts, LAMBDA p : p # <<>>)

(* a property value: a scalar, a FlowList, or the nested dims mapping *)
ScalarProp(v) == [kind |-> "scalar", items |-> <<v>>, sub |-> <<>>]
FlowList(vs) == [kind |-> "list", items |-> vs, sub |-> <<>>]
MapProp(d) == [kind |-> "map", items |-> <<>>, sub |-> d]

parse_value_list(rest) ==
    FlowList(MapToNumber(NonEmptyParts(re_split(rstrip(strip(rest), {","})))))

(* ---------------------------------------------------------------------- *)
(* Dicts in insertion order                                                *)
(* ---------------------------------------------------------------------- *)
Keys(d) == [i \in 1..Len(d) |-> d[i].key]
DictHas(d, k) == \E i \in 1..Len(d) : d[i].key = k
DictGet(d, k) == d[CHOOSE i \in 1..Len(d) : d[i].key = k].val

(* variant: an overwritten key moves to the end *)
DictSetMoveToEnd(d, k, v) ==
    Append(SelectSeq(d, LAMBDA e : e.key # k), [key |-> k, val |-> v])

(* d[k] = v : an existing key keeps its position, a new key goes last *)
DictSet(d, k, v) ==
    IF DictHas(d, k)
    THEN [i \in 1..Len(d) |-> IF d[i].key = k THEN [key |-> k, val |-> v] ELSE d[i]]
    ELSE Append(d, [key |-> k, val |-> v])

(* d.setdefault(k, {}) *)
setdefault(d, k) == IF DictHas(d, k) THEN d ELSE Append(d, [key |-> k, val |-> <<>>])

None == <<>>
Some(x) == <<x>>
Truthy(opt) == opt # None /\ opt[1] # <<>>

(* ---------------------------------------------------------------------- *)
(* Recognised keys                                                         *)
(* ---------------------------------------------------------------------- *)
KeySize == <<"s", "i", "z", "e">>
KeyEnc == <<"e", "n", "c">>
KeyVoltage == <<"v", "o", "l", "t", "a", "g", "e">>
KeyDims == <<"d", "i", "m", "s">>
LIST_KEYS_IN_DIMS == {KeySize, KeyEnc}
TOPLEVEL_LIST_KEYS == {KeyVoltage}

(* ---------------------------------------------------------------------- *)
(* Line classification                                                     *)
(* ---------------------------------------------------------------------- *)
(* not line or line.startswith("#") *)
IsSkipped(line) == IF line = <<>> THEN TRUE ELSE Head(line) = "#"

\* re.match of the header pattern: word characters, ":", optional whitespace,
\* one token without whitespace, end of line
HeaderMatch(line) ==
    LET k == Run(line, WordChar)
        tok == lstrip(Drop(line, k + 1), Space)
    IN /\ k >= 1
       /\ Len(line) > k /\ line[k + 1] = ":"
       /\ tok # <<>>
       /\ \A i \in 1..Len(tok) : tok[i] \notin Space
HeaderSection(line) == Take(line, Run(line, WordChar))
HeaderName(line) == lstrip(Drop(line, Run(line, WordChar) + 1), Space)

\* re.match of the property pattern: an identifier, whitespace, the rest of
\* the line ("." does not match a newline)
PropMatch(line) ==
    LET k == Run(line, WordChar)
        after == Drop(line, k)
    IN /\ line # <<>> /\ Head(line) \in Letter \cup {"_"}
       /\ Run(after, Space) >= 1
       /\ \A i \in 1..Len(lstrip(after, Space)) : lstrip(after, Space)[i] # "\n"
PropKey(line) == Take(line, Run(line, WordChar))
PropRest(line) == strip(lstrip(Drop(line, Run(line, WordChar)), Space))

(* ---------------------------------------------------------------------- *)
(* State                                                                   *)
(* ---------------------------------------------------------------------- *)
VARIABLES
    pc,         \* position in convert_to_yaml / parse_old_format
    consumed,   \* the raw lines of the input file read so far
    out,        \* section -> { name -> block }
    section,    \* current section, None before the first header
    name,       \* current block name, None before the first header
    block,      \* properties of the open block, None before the first header
    dims,       \* dims of the open block, None before the first header
    commitLog,  \* history: the (section, name) of every commit executed
    outFile,    \* the output file: "untouched", "truncated" or "written"
    yamlOut,    \* the paths emitted by yaml.safe_dump, in order
    tok,        \* argument of a direct call of to_number / parse_value_list
    result      \* result of that call, None before it

vars == <<pc, consumed, out, section, name, block, dims, commitLog, outFile, yamlOut, tok, result>>
parserVars == <<out, section, name, block, dims, commitLog>>

(* ---------------------------------------------------------------------- *)
(* parse_old_format                                                        *)
(* ---------------------------------------------------------------------- *)
(* variant: dims is attached even when it is empty *)
AttachDimsAlways(b, d) == IF d # None THEN DictSet(b, KeyDims, MapProp(d[1])) ELSE b

(* variant: the dims entry is put in front of the properties *)
AttachDimsFirst(b, d) ==
    IF Truthy(d)
    THEN <<[key |-> KeyDims, val |-> MapProp(d[1])]>> \o SelectSeq(b, LAMBDA e : e.key # KeyDims)
    ELSE b

(* if dims: block["dims"] = dims *)
AttachDims(b, d) == IF Truthy(d) THEN DictSet(b, KeyDims, MapProp(d[1])) ELSE b

(* variant: a repeated (section, name) is updated field by field *)
RECURSIVE DictUpdate(_, _)
DictUpdate(d, e) ==
    IF e = <<>> THEN d ELSE DictUpdate(DictSet(d, Head(e).key, Head(e).val), Tail(e))
StoreMerged(o, s, n, b) ==
    LET o1 == setdefault(o, s)
        old == IF DictHas(DictGet(o1, s), n) THEN DictGet(DictGet(o1, s), n) ELSE <<>>
    IN DictSet(o1, s, DictSet(DictGet(o1, s), n, DictUpdate(old, b)))

(* out.setdefault(section, {})[name] = block *)
Store(o, s, n, b) ==
    LET o1 == setdefault(o, s)
    IN DictSet(o1, s, DictSet(DictGet(o1, s), n, b))

(* variant: the flush tests the truth value of block, so an empty block is not flushed *)
CanFlushNonEmpty == Truthy(section) /\ Truthy(name) /\ Truthy(block)

CanFlush == Truthy(section) /\ Truthy(name) /\ block # None

(* the flush of lines 67-70 and 94-97 *)
Flushed(o) == IF CanFlush THEN Store(o, section[1], name[1], AttachDims(block[1], dims)) ELSE o
FlushedLog == IF CanFlush THEN Append(commitLog, <<section[1], name[1]>>) ELSE commitLog

(* the value written by a property line *)
PropValue(key, rest) ==
    IF key \in LIST_KEYS_IN_DIMS THEN parse_value_list(rest)
    ELSE IF key \in TOPLEVEL_LIST_KEYS THEN parse_value_list(rest)
    ELSE IF \E i \in 1..Len(rest) : rest[i] = "," THEN parse_value_list(rest)
    ELSE ScalarProp(to_number(rest))

Reading(raw) ==
    /\ pc = "reading"
    /\ Len(consumed) < MaxLines
    /\ consumed' = Append(consumed, raw)
    /\ UNCHANGED <<pc, outFile, yamlOut, tok, result>>

SkipLine(raw) ==
    /\ Reading(raw)
    /\ IsSkipped(strip(raw))
    /\ UNCHANGED parserVars

HeaderLine(raw) ==
    LET line == strip(raw) IN
    /\ Reading(raw)
    /\ ~IsSkipped(line)
    /\ HeaderMatch(line)
    /\ out' = Flushed(out)
    /\ commitLog' = FlushedLog
    /\ section' = Some(HeaderSection(line))
    /\ name' = Some(HeaderName(line))
    /\ block' = Some(<<>>)
    /\ dims' = Some(<<>>)

(* variant: a property line read before any header opens an anonymous block *)
IgnoreLineOpensBlock(raw) ==
    LET line == strip(raw) IN
    /\ Reading(raw)
    /\ ~IsSkipped(line)
    /\ ~HeaderMatch(line)
    /\ IF PropMatch(line) THEN block = None ELSE TRUE
    /\ IF PropMatch(line)
       THEN /\ block' = Some(<<[key |-> PropKey(line), val |-> PropValue(PropKey(line), PropRest(line))] >>)
            /\ UNCHANGED <<out, section, name, dims, commitLog>>
       ELSE UNCHANGED parserVars

IgnoreLine(raw) ==
    LET line == strip(raw) IN
    /\ Reading(raw)
    /\ ~IsSkipped(line)
    /\ ~HeaderMatch(line)
    /\ IF PropMatch(line) THEN block = None ELSE TRUE
    /\ UNCHANGED parserVars

PropertyLine(raw) ==
    LET line == strip(raw)
        key == PropKey(line)
        rest == PropRest(line)
    IN
    /\ Reading(raw)
    /\ ~IsSkipped(line)
    /\ ~HeaderMatch(line)
    /\ PropMatch(line) /\ block # None
    /\ IF key \in LIST_KEYS_IN_DIMS
       THEN /\ dims' = Some(DictSet(dims[1], key, PropValue(key, rest)))
            /\ UNCHANGED block
       ELSE /\ block' = Some(DictSet(block[1], key, PropValue(key, rest)))
            /\ UNCHANGED dims
    /\ UNCHANGED <<out, section, name, commitLog>>

(* end of input: flush the last block and return out *)
FlushLast ==
    /\ pc = "reading"
    /\ pc' = "parsed"
    /\ out' = Flushed(out)
    /\ commitLog' = FlushedLog
    /\ block' = IF CanFlush THEN Some(AttachDims(block[1], dims)) ELSE block
    /\ UNCHANGED <<consumed, section, name, dims, outFile, yamlOut, tok, result>>

(* variant: the output file is opened together with the input file *)
OpenInputTruncatesOutput ==
    /\ pc = "start"
    /\ pc' = "reading"
    /\ outFile' = "truncated"
    /\ UNCHANGED <<consumed, parserVars, yamlOut, tok, result>>

(* open(path, "r") *)
OpenInput ==
    /\ pc = "start"
    /\ pc' = "reading"
    /\ UNCHANGED <<consumed, parserVars, outFile, yamlOut, tok, result>>

(* open(path, "r") raises: the exception leaves convert_to_yaml *)
OpenInputFail ==
    /\ pc = "start"
    /\ pc' = "error"
    /\ UNCHANGED <<consumed, parserVars, outFile, yamlOut, tok, result>>

(* reading the next line raises (I/O or decoding error) *)
ReadFail ==
    /\ pc = "reading"
    /\ pc' = "error"
    /\ UNCHANGED <<consumed, parserVars, outFile, yamlOut, tok, result>>

(* ---------------------------------------------------------------------- *)
(* convert_to_yaml                                                         *)
(* ---------------------------------------------------------------------- *)
(* open(out_path, "w") creates or truncates the file *)
OpenOutput ==
    /\ pc = "parsed"
    /\ pc' = "opened"
    /\ outFile' = "truncated"
    /\ UNCHANGED <<consumed, parserVars, yamlOut, tok, result>>

(* the mapping paths yaml.safe_dump(sort_keys=False) emits for one block *)
RECURSIVE DumpBlock(_, _)
DumpBlock(prefix, b) ==
    IF b = <<>> THEN <<>>
    ELSE <<Append(prefix, Head(b).key)>>
         \o [i \in 1..Len(Head(b).val.sub) |-> prefix \o <<Head(b).key, Head(b).val.sub[i].key>>]
         \o DumpBlock(prefix, Tail(b))

RECURSIVE DumpSection(_, _)
DumpSection(s, blocks) ==
    IF blocks = <<>> THEN <<>>
    ELSE <<<<s, Head(blocks).key>>>> \o DumpBlock(<<s, Head(blocks).key>>, Head(blocks).val)
         \o DumpSection(s, Tail(blocks))

RECURSIVE safe_dump(_)
safe_dump(data) ==
    IF data = <<>> THEN <<>>
    ELSE <<<<Head(data).key>>>> \o DumpSection(Head(data).key, Head(data).val)
         \o safe_dump(Tail(data))

Dump ==
    /\ pc = "opened"
    /\ pc' = "done"
    /\ outFile' = "written"
    /\ yamlOut' = safe_dump(out)
    /\ UNCHANGED <<consumed, parserVars, tok, result>>

(* ---------------------------------------------------------------------- *)
(* Input lines                                                             *)
(* ---------------------------------------------------------------------- *)
(* files of headers of two sections, with lines that have no destination *)
Lines == {
    <<" ", "\n">>,
    <<"#", "a", ":", "X", "\n">>,
    <<"a", ":", " ", "X", "\n">>,
    <<"a", ":", " ", "Y", "\n">>,
    <<"b", ":", "X">>,
    <<"a", ":", " ", "X", " ", "Y", "\n">>,
    <<"p", " ", "1", "\n">> }

(* files of property lines under headers that may be repeated *)
BlockLines == {
    <<" ", "\n">>,
    <<"a", ":", " ", "X", "\n">>,
    <<"b", ":", "X">>,
    <<"p", " ", "1", "\n">>,
    <<" ", "p", "\t", "2", ",", "3", "\n">>,
    <<"s", "i", "z", "e", " ", "1", " ", "2", "\n">>,
    <<"e", "n", "c", " ", "4", ",", " ", "4", "\n">>,
    <<"d", "i", "m", "s", " ", "5", "\n">> }

Init ==
    /\ pc = "start"
    /\ consumed = <<>>
    /\ out = <<>>
    /\ section = None
    /\ name = None
    /\ block = None
    /\ dims = None
    /\ commitLog = <<>>
    /\ outFile = "untouched"
    /\ yamlOut = <<>>
    /\ tok = <<>>
    /\ result = None

Next ==
    \/ OpenInput
    \/ OpenInputFail
    \/ \E raw \in Lines : SkipLine(raw)
    \/ \E raw \in Lines : HeaderLine(raw)
    \/ \E raw \in Lines : IgnoreLine(raw)
    \/ \E raw \in Lines : PropertyLine(raw)
    \/ ReadFail
    \/ FlushLast
    \/ OpenOutput
    \/ Dump

Spec == Init /\ [][Next]_vars

NextBlock ==
    \/ OpenInput
    \/ OpenInputFail
    \/ \E raw \in BlockLines : SkipLine(raw)
    \/ \E raw \in BlockLines : HeaderLine(raw)
    \/ \E raw \in BlockLines : IgnoreLine(raw)
    \/ \E raw \in BlockLines : PropertyLine(raw)
    \/ ReadFail
    \/ FlushLast
    \/ OpenOutput
    \/ Dump

SpecBlock == Init /\ [][NextBlock]_vars

(* ---------------------------------------------------------------------- *)
(* Direct calls of the value coercer on every short string                 *)
(* ---------------------------------------------------------------------- *)
Strings(A, n) == UNION {[1..k -> A] : k \in 0..n}

TokAlphabet == {"0", "1", "-", "+", ".", "e", ",", " "}

InitCoerce ==
    /\ Init!1 /\ Init!2 /\ Init!3 /\ Init!4 /\ Init!5 /\ Init!6
    /\ Init!7 /\ Init!8 /\ Init!9 /\ Init!10
    /\ tok \in Strings(TokAlphabet, MaxTok)
    /\ result = None

CallToNumber ==
    /\ result = None
    /\ result' = Some([fn |-> "to_number", val |-> ScalarProp(to_number(tok))])
    /\ UNCHANGED <<pc, consumed, parserVars, outFile, yamlOut, tok>>

CallParseValueList ==
    /\ result = None
    /\ result' = Some([fn |-> "parse_value_list", val |-> parse_value_list(tok)])
    /\ UNCHANGED <<pc, consumed, parserVars, outFile, yamlOut, tok>>

NextCoerce == CallToNumber \/ CallParseValueList

SpecCoerce == InitCoerce /\ [][NextCoerce]_vars

(* ---------------------------------------------------------------------- *)
(* Files of one line followed by an arbitrary short property line          *)
(* ---------------------------------------------------------------------- *)
RawAlphabet == {"1", ",", " ", "e"}
PropKeys == {KeySize, KeyEnc, KeyVoltage, <<"p">>}
ExtraRaws == {<<"1", ",", "2", ",", ",", "3", ",">>,
              <<"1", ",", " ", "2", ",", " ", "3">>}
FirstLines == {<<"a", ":", " ", "X", "\n">>, <<"\n">>}
PropLines ==
    {k \o <<" ">> \o r : k \in PropKeys, r \in Strings(RawAlphabet, MaxRaw) \cup ExtraRaws}

PropInput ==
    IF consumed = <<>> THEN FirstLines
    ELSE IF Len(consumed) = 1 THEN PropLines
    ELSE {}

NextProp ==
    \/ OpenInput
    \/ \E raw \in PropInput : SkipLine(raw)
    \/ \E raw \in PropInput : HeaderLine(raw)
    \/ \E raw \in PropInput : IgnoreLine(raw)
    \/ \E raw \in PropInput : PropertyLine(raw)
    \/ FlushLast

SpecProp == Init /\ [][NextProp]_vars

(* ====================================================================== *)
(* Properties                                                              *)
(* ====================================================================== *)
Min(S) == CHOOSE x \in S : \A y \in S : x <= y
Max(S) == CHOOSE x \in S : \A y \in S : x >= y

(* s without its surrounding whitespace *)
RefTrim(s) ==
    LET ns == {i \in 1..Len(s) : s[i] \notin {" ", "\t", "\n", "\r"}}
    IN IF ns = {} THEN <<>> ELSE SubSeq(s, Min(ns), Max(ns))

(* t without one trailing comma / without all its trailing commas *)
RefDropOneComma(t) == IF t # <<>> /\ t[Len(t)] = "," THEN SubSeq(t, 1, Len(t) - 1) ELSE t
RefDropCommas(t) ==
    SubSeq(t, 1, Min({k \in 0..Len(t) : \A i \in (k + 1)..Len(t) : t[i] = ","}))

RefBody(t) == IF t # <<>> /\ t[1] \in {"+", "-"} THEN SubSeq(t, 2, Len(t)) ELSE t
RefDigitCount(t) == Cardinality({i \in 1..Len(t) : t[i] \in Digit})
RefPointCount(t) == Cardinality({i \in 1..Len(t) : t[i] = "."})

(* an optional sign followed only by digits *)
RefIsInt(t) == RefBody(t) # <<>> /\ RefDigitCount(RefBody(t)) = Len(RefBody(t))

(* an optional sign, digits and/or a single decimal point, at least one digit *)
RefIsFloat(t) ==
    /\ RefDigitCount(RefBody(t)) + RefPointCount(RefBody(t)) = Len(RefBody(t))
    /\ RefPointCount(RefBody(t)) <= 1
    /\ RefDigitCount(RefBody(t)) >= 1

RefClassify(t) ==
    IF RefIsInt(t) THEN int(t)
    ELSE IF RefIsFloat(t) THEN float(t)
    ELSE StrValue(t)

RefHasExponent(t) == \E i \in 1..Len(t) : t[i] \in {"e", "E"}

ToNumberCalled == result # None /\ result[1].fn = "to_number"
ToNumberResult == result[1].val.items[1]

(* C9 as stated: to_number strips surrounding whitespace and a single
   trailing comma, then classifies the remaining token as Integer, Float or
   RawString; a token with an exponent marker is a RawString equal to the
   trimmed input. *)
C9_SingleTrailingComma ==
    ToNumberCalled =>
        LET t == RefDropOneComma(RefTrim(tok))
        IN /\ ToNumberResult = RefClassify(t)
           /\ RefHasExponent(t) => ToNumberResult = StrValue(t)

(* C9 amended: to_number strips surrounding whitespace and then every
   trailing comma (whitespace uncovered by the commas stays), then classifies
   the remaining token as Integer int(t), Float float(t) or RawString t; a
   token with an exponent marker is the RawString t; every string has a
   result. *)
C9_ToNumberClassifies ==
    ToNumberCalled =>
        LET t == RefDropCommas(RefTrim(tok))
        IN /\ ToNumberResult.kind \in {"int", "float", "str"}
           /\ ToNumberResult = RefClassify(t)
           /\ RefHasExponent(t) => ToNumberResult = StrValue(t)

C9_Witness ==
    /\ ToNumberCalled
    /\ Len(tok) = 4
    /\ tok[3] = "," /\ tok[4] = ","
    /\ ToNumberResult.kind = "float"

(* the reference coerce_list: split on commas, trim each part, drop the
   empty parts, coerce each remaining part, keep the order *)
RECURSIVE RefSplit(_)
RefSplit(raw) ==
    LET cs == {i \in 1..Len(raw) : raw[i] = ","}
    IN IF cs = {} THEN <<raw>>
       ELSE <<SubSeq(raw, 1, Min(cs) - 1)>> \o RefSplit(SubSeq(raw, Min(cs) + 1, Len(raw)))

RefCoerceList(raw) ==
    LET trimmed == [i \in 1..Len(RefSplit(raw)) |-> RefTrim(RefSplit(raw)[i])]
        kept == SelectSeq(trimmed, LAMBDA q : q # <<>>)
    IN [kind |-> "list", items |-> [i \in 1..Len(kept) |-> to_number(kept[i])], sub |-> <<>>]

RefDimsKeys == {<<"s", "i", "z", "e">>, <<"e", "n", "c">>}
RefListKeys == {<<"v", "o", "l", "t", "a", "g", "e">>}

(* the class of a raw input line and the groups of its match *)
LineInfoOf(raw) ==
    LET line == strip(raw)
    IN IF IsSkipped(line) THEN [cls |-> "skip", a |-> <<>>, b |-> <<>>]
       ELSE IF HeaderMatch(line)
       THEN [cls |-> "header", a |-> HeaderSection(line), b |-> HeaderName(line)]
       ELSE IF PropMatch(line)
       THEN [cls |-> "prop", a |-> PropKey(line), b |-> PropRest(line)]
       ELSE [cls |-> "junk", a |-> <<>>, b |-> <<>>]

Cls(raw) == LineInfoOf(raw).cls

LineRead == Len(consumed') = Len(consumed) + 1
LastRead == consumed'[Len(consumed')]

(* d2 is d with key k set to v and every other entry as it was *)
Written(d, d2, k, v) ==
    /\ d2 # None
    /\ DictHas(d2[1], k) /\ DictGet(d2[1], k) = v
    /\ \A i \in 1..Len(d[1]) : d[1][i].key # k => d[1][i] \in {d2[1][j] : j \in 1..Len(d2[1])}
    /\ \A j \in 1..Len(d2[1]) : d2[1][j].key # k => d2[1][j] \in {d[1][i] : i \in 1..Len(d[1])}

RefStored(key, raw) ==
    IF key \in RefDimsKeys \/ key \in RefListKeys \/ (\E i \in 1..Len(raw) : raw[i] = ",")
    THEN RefCoerceList(raw)
    ELSE [kind |-> "scalar", items |-> <<to_number(raw)>>, sub |-> <<>>]

(* C10: a Property line (key, raw) read while a block is open writes exactly
   one destination: dims[key] for key in {size, enc}, the top-level property
   key otherwise; the value is coerce_list(raw) for a dims key, for voltage
   and for a raw with a comma, and coerce(raw) otherwise, where coerce_list
   is the reference split / trim / drop empty / coerce. *)
C10_PropertyRouting ==
    [][ (LineRead /\ block # None /\ Cls(LastRead) = "prop") =>
          LET key == LineInfoOf(LastRead).a
              raw == LineInfoOf(LastRead).b
          IN /\ out' = out /\ section' = section /\ name' = name
             /\ IF key \in RefDimsKeys
                THEN Written(dims, dims', key, RefStored(key, raw)) /\ block' = block
                ELSE Written(block, block', key, RefStored(key, raw)) /\ dims' = dims
      ]_vars

C10_Witness ==
    /\ Len(consumed) = 2
    /\ consumed[2] = <<"p", " ", "1", ",", "2", ",", ",", "3", ",">>
    /\ block # None
    /\ DictHas(block[1], <<"p">>)
    /\ DictGet(block[1], <<"p">>) = FlowList(<<IntValue(1), IntValue(2), IntValue(3)>>)

(* ---------------------------------------------------------------------- *)
(* The input read so far, as the headers and the property lines under them *)
(* ---------------------------------------------------------------------- *)
ParseDone == pc \in {"parsed", "opened", "done"}

RECURSIVE RefBlocks(_)
RefBlocks(lines) ==
    IF lines = <<>> THEN <<>>
    ELSE LET prev == RefBlocks(SubSeq(lines, 1, Len(lines) - 1))
             info == LineInfoOf(lines[Len(lines)])
         IN IF info.cls = "header"
            THEN Append(prev, [pair |-> <<info.a, info.b>>, props |-> <<>>])
            ELSE IF info.cls = "prop" /\ prev # <<>>
            THEN [prev EXCEPT ![Len(prev)].props = Append(@, [key |-> info.a, raw |-> info.b])]
            ELSE prev

(* a block is closed by the next header or by the end of input *)
NClosed(B) == IF ParseDone THEN Len(B) ELSE IF B = <<>> THEN 0 ELSE Len(B) - 1
ClosedIdx(B) == 1..NClosed(B)
ClosedFor(B, pair) == {h \in ClosedIdx(B) : B[h].pair = pair}
(* the closed headers that are the last closed one of their (section, name) *)
LastClosed(B) == {h \in ClosedIdx(B) : \A h2 \in ClosedIdx(B) : h2 > h => B[h2].pair # B[h].pair}

PropKeysOf(blk) == {blk.props[i].key : i \in 1..Len(blk.props)}
TopSeen(blk) == PropKeysOf(blk) \ RefDimsKeys
DimsSeen(blk) == PropKeysOf(blk) \cap RefDimsKeys
LastRaw(blk, k) == blk.props[Max({i \in 1..Len(blk.props) : blk.props[i].key = k})].raw

InDoc(pair) == DictHas(out, pair[1]) /\ DictHas(DictGet(out, pair[1]), pair[2])
DocBlock(pair) == DictGet(DictGet(out, pair[1]), pair[2])
DocPairs == UNION {{<<out[i].key, out[i].val[j].key>> : j \in 1..Len(out[i].val)} : i \in 1..Len(out)}

MapEntries(b) == {i \in 1..Len(b) : b[i].val.kind = "map"}
KeySet(d) == {d[i].key : i \in 1..Len(d)}
RefKeyDims == <<"d", "i", "m", "s">>

(* keys lists f(h) for the h of I by increasing h *)
OrderedBy(keys, I, f(_)) ==
    /\ Len(keys) = Cardinality(I)
    /\ \A h \in I : keys[Cardinality({h2 \in I : h2 <= h})] = f(h)

(* C1: each block opened by a Header line is committed exactly once, when
   the next Header line is read or the input ends, never while its own
   property lines are read; empty blocks are committed too; after the end of
   input every (section, name) of a Header line is in the Document. *)
C1_CommitAtClose ==
    /\ [](LET B == RefBlocks(consumed)
          IN /\ commitLog = [h \in ClosedIdx(B) |-> B[h].pair]
             /\ DocPairs = {B[h].pair : h \in ClosedIdx(B)}
             /\ ParseDone => \A h \in 1..Len(B) : InDoc(B[h].pair))
    /\ [][ (out' # out \/ commitLog' # commitLog) =>
             \/ LineRead /\ Cls(LastRead) = "header"
             \/ pc = "reading" /\ pc' = "parsed" ]_vars

C1_Witness ==
    LET B == RefBlocks(consumed)
    IN /\ pc = "parsed"
       /\ Len(B) >= 2
       /\ Len(commitLog) = Len(B)
       /\ B[Len(B)].props = <<>>
       /\ ClosedFor(B, B[Len(B)].pair) = {Len(B)}
       /\ InDoc(B[Len(B)].pair)
       /\ DocBlock(B[Len(B)].pair) = <<>>

(* C2: in every committed block no key of {size, enc} is a top-level
   property; the dims sub-mapping is attached iff a size/enc line was read
   while the block was open; when attached it holds exactly the dims keys
   that were seen. *)
C2_DimsSegregated ==
    LET B == RefBlocks(consumed)
    IN \A h \in LastClosed(B) :
          /\ InDoc(B[h].pair)
          /\ LET b == DocBlock(B[h].pair)
             IN /\ KeySet(b) \cap RefDimsKeys = {}
                /\ (MapEntries(b) # {}) <=> (DimsSeen(B[h]) # {})
                /\ \A i \in MapEntries(b) :
                      /\ b[i].key = RefKeyDims
                      /\ KeySet(b[i].val.sub) = DimsSeen(B[h])

C2_Witness ==
    LET B == RefBlocks(consumed)
    IN /\ ParseDone
       /\ \E h \in LastClosed(B) :
             /\ DimsSeen(B[h]) = RefDimsKeys
             /\ TopSeen(B[h]) # {}
             /\ Cardinality(MapEntries(DocBlock(B[h].pair))) = 1

(* C3 as stated: for every committed block and every non-dims key k of a
   property line of the block, the block maps k to the value parsed from the
   last property line with key k. *)
C3_LastWriteWins ==
    LET B == RefBlocks(consumed)
    IN \A h \in LastClosed(B) :
          \A k \in TopSeen(B[h]) :
              /\ DictHas(DocBlock(B[h].pair), k)
              /\ DictGet(DocBlock(B[h].pair), k) = RefStored(k, LastRaw(B[h], k))

(* the value a block holds for a field, <<>> if it holds none *)
FieldValue(b, k) ==
    IF k \in RefDimsKeys
    THEN IF DictHas(b, RefKeyDims) /\ DictHas(DictGet(b, RefKeyDims).sub, k)
         THEN <<DictGet(DictGet(b, RefKeyDims).sub, k)>>
         ELSE <<>>
    ELSE IF DictHas(b, k) THEN <<DictGet(b, k)>> ELSE <<>>

(* C4 as stated: repeated headers of one (section, name) are resolved
   last-write-wins per field: every field that occurred under any of them is
   in the final block with the value of its last occurrence. *)
C4_PerFieldMerge ==
    LET B == RefBlocks(consumed)
    IN \A h \in LastClosed(B) :
          Cardinality(ClosedFor(B, B[h].pair)) >= 2 =>
              \A k \in UNION {PropKeysOf(B[g]) : g \in ClosedFor(B, B[h].pair)} :
                  LET g == Max({x \in ClosedFor(B, B[h].pair) : k \in PropKeysOf(B[x])})
                  IN FieldValue(DocBlock(B[h].pair), k) = <<RefStored(k, LastRaw(B[g], k))>>

(* C4 amended: repeated headers of one (section, name) leave a single block,
   the block of the last of them, replaced as a whole: its top-level keys and
   dims keys are exactly those read under that last header, each with the
   value of its last occurrence there (a property named dims giving way to
   the dims mapping when one is attached). *)
C4_WholeBlockReplaced ==
    LET B == RefBlocks(consumed)
    IN \A h \in LastClosed(B) :
          Cardinality(ClosedFor(B, B[h].pair)) >= 2 =>
              LET b == DocBlock(B[h].pair)
                  sec == DictGet(out, B[h].pair[1])
              IN /\ Cardinality({i \in 1..Len(out) : out[i].key = B[h].pair[1]}) = 1
                 /\ Cardinality({j \in 1..Len(sec) : sec[j].key = B[h].pair[2]}) = 1
                 /\ KeySet(b) = TopSeen(B[h]) \cup (IF DimsSeen(B[h]) # {} THEN {RefKeyDims} ELSE {})
                 /\ \A k \in TopSeen(B[h]) :
                       (k # RefKeyDims \/ DimsSeen(B[h]) = {}) =>
                           DictGet(b, k) = RefStored(k, LastRaw(B[h], k))
                 /\ DimsSeen(B[h]) # {} =>
                       /\ DictGet(b, RefKeyDims).kind = "map"
                       /\ KeySet(DictGet(b, RefKeyDims).sub) = DimsSeen(B[h])
                       /\ \A k \in DimsSeen(B[h]) :
                             DictGet(DictGet(b, RefKeyDims).sub, k) = RefStored(k, LastRaw(B[h], k))

C4_Witness ==
    LET B == RefBlocks(consumed)
    IN /\ ParseDone
       /\ \E h \in LastClosed(B) :
             /\ DocBlock(B[h].pair) # <<>>
             /\ \E h1 \in ClosedFor(B, B[h].pair) :
                   h1 < h /\ ~(TopSeen(B[h1]) \subseteq KeySet(DocBlock(B[h].pair)))

(* the keys yaml.safe_dump emitted below a path *)
YamlKeys(prefix) ==
    LET sel == SelectSeq(yamlOut, LAMBDA q : Len(q) = Len(prefix) + 1
                                             /\ SubSeq(q, 1, Len(prefix)) = prefix)
    IN [i \in 1..Len(sel) |-> sel[i][Len(prefix) + 1]]

(* sections in the order of the first header naming each, and the names of a
   section in the order of the first header naming each (section, name) *)
SectionsInOrder(keys, B) ==
    OrderedBy(keys,
              {h \in ClosedIdx(B) : \A h2 \in 1..(h - 1) : B[h2].pair[1] # B[h].pair[1]},
              LAMBDA h : B[h].pair[1])
NamesInOrder(keys, B, s) ==
    OrderedBy(keys,
              {h \in ClosedIdx(B) : B[h].pair[1] = s /\ \A h2 \in 1..(h - 1) : B[h2].pair # B[h].pair},
              LAMBDA h : B[h].pair[2])

(* C5: the sections of the Document are ordered by the first Header line
   naming each section and the blocks of a section by the first Header line
   naming each (section, name), also with interleaved sections and repeated
   pairs; the serializer keeps that order. *)
C5_FirstSeenOrder ==
    LET B == RefBlocks(consumed)
    IN /\ SectionsInOrder(Keys(out), B)
       /\ \A h \in ClosedIdx(B) :
             /\ DictHas(out, B[h].pair[1])
             /\ NamesInOrder(Keys(DictGet(out, B[h].pair[1])), B, B[h].pair[1])
       /\ pc = "done" =>
             /\ SectionsInOrder(YamlKeys(<<>>), B)
             /\ \A h \in ClosedIdx(B) : NamesInOrder(YamlKeys(<<B[h].pair[1]>>), B, B[h].pair[1])

C5_Witness ==
    /\ pc = "done"
    /\ Len(commitLog) = 4
    /\ commitLog[1] = commitLog[4]
    /\ commitLog[2][1] # commitLog[1][1]
    /\ commitLog[3][1] = commitLog[1][1]
    /\ YamlKeys(<<>>) = <<<<"a">>, <<"b">>>>
    /\ YamlKeys(<<<<"a">>>>) = <<<<"Y">>, <<"X">>>>

(* first occurrences in a block's property lines, by label *)
FirstLabelled(blk, label(_)) ==
    {i \in 1..Len(blk.props) : \A i2 \in 1..(i - 1) : label(blk.props[i2].key) # label(blk.props[i].key)}
DimsLabel(k) == IF k \in RefDimsKeys THEN RefKeyDims ELSE k
SubKeysInOrder(subkeys, blk) ==
    OrderedBy(subkeys,
              {i \in FirstLabelled(blk, LAMBDA k : k) : blk.props[i].key \in RefDimsKeys},
              LAMBDA i : blk.props[i].key)

(* C6 as stated: a block's entries are in the order of the first property
   line introducing each, the dims entry counting as introduced by the first
   size/enc line; the keys inside dims are in first-seen order. *)
KeysFirstSeenWithDims(keys, subkeys, blk) ==
    /\ OrderedBy(keys, FirstLabelled(blk, DimsLabel), LAMBDA i : DimsLabel(blk.props[i].key))
    /\ SubKeysInOrder(subkeys, blk)

(* C6 amended: the top-level property keys are in the order of the first
   property line introducing each; the dims entry is put in when the block is
   committed, hence after every top-level property, unless a property named
   dims already holds a place, which it keeps; the keys inside dims are in
   first-seen order. *)
KeysFirstSeenDimsLast(keys, subkeys, blk) ==
    LET top == {i \in FirstLabelled(blk, LAMBDA k : k) : blk.props[i].key \notin RefDimsKeys}
    IN /\ IF DimsSeen(blk) # {} /\ RefKeyDims \notin TopSeen(blk)
          THEN /\ keys # <<>>
               /\ keys[Len(keys)] = RefKeyDims
               /\ OrderedBy(SubSeq(keys, 1, Len(keys) - 1), top, LAMBDA i : blk.props[i].key)
          ELSE OrderedBy(keys, top, LAMBDA i : blk.props[i].key)
       /\ SubKeysInOrder(subkeys, blk)

DocSubKeys(b) ==
    IF DictHas(b, RefKeyDims) THEN Keys(DictGet(b, RefKeyDims).sub) ELSE <<>>

C6_FirstSeenKeyOrder ==
    LET B == RefBlocks(consumed)
    IN \A h \in LastClosed(B) :
          /\ KeysFirstSeenWithDims(Keys(DocBlock(B[h].pair)), DocSubKeys(DocBlock(B[h].pair)), B[h])
          /\ pc = "done" =>
                KeysFirstSeenWithDims(YamlKeys(B[h].pair), YamlKeys(Append(B[h].pair, RefKeyDims)), B[h])

C6_KeyOrderDimsLast ==
    LET B == RefBlocks(consumed)
    IN \A h \in LastClosed(B) :
          /\ KeysFirstSeenDimsLast(Keys(DocBlock(B[h].pair)), DocSubKeys(DocBlock(B[h].pair)), B[h])
          /\ pc = "done" =>
                KeysFirstSeenDimsLast(YamlKeys(B[h].pair), YamlKeys(Append(B[h].pair, RefKeyDims)), B[h])

C6_Witness ==
    LET B == RefBlocks(consumed)
    IN /\ pc = "done"
       /\ Len(B) = 1
       /\ Len(B[1].props) = 3
       /\ B[1].props[1].key \in RefDimsKeys
       /\ B[1].props[2].key = B[1].props[3].key
       /\ B[1].props[2].raw # B[1].props[3].raw
       /\ YamlKeys(B[1].pair) = <<B[1].props[2].key, RefKeyDims>>

(* a line that has no destination in the current state *)
NoDestination(raw) ==
    \/ Cls(raw) \in {"skip", "junk"}
    \/ Cls(raw) = "prop" /\ block = None

(* C7: a blank line, a comment line, a line of neither form and a Property
   line read while no block is open leave the assembler state and the
   Document unchanged and raise no error; an input without Header line gives
   an empty Document and an empty output. *)
C7_NoDestinationNoChange ==
    /\ []((ParseDone /\ RefBlocks(consumed) = <<>>) => (out = <<>> /\ block = None))
    /\ []((pc = "done" /\ RefBlocks(consumed) = <<>>) => yamlOut = <<>>)
    /\ [][ (LineRead /\ NoDestination(LastRead)) =>
             /\ UNCHANGED <<section, name, block, dims, out, commitLog>>
             /\ pc' = "reading" ]_vars

C7_Witness ==
    /\ pc = "done"
    /\ Len(consumed) >= 3
    /\ RefBlocks(consumed) = <<>>
    /\ \E i \in 1..Len(consumed) : Cls(consumed[i]) = "prop"
    /\ \E i \in 1..Len(consumed) : Cls(consumed[i]) = "junk"
    /\ \E i \in 1..Len(consumed) : Cls(consumed[i]) = "skip"
    /\ out = <<>>

(* C8: the output file is opened only after parse_old_format has returned
   the Document; when reading or parsing fails the output file is not
   created, truncated or written. *)
C8_NoOutputOnParseFailure ==
    /\ [](pc = "error" => outFile = "untouched")
    /\ [](outFile # "untouched" => ParseDone)
    /\ [][outFile' # outFile => (ParseDone /\ out' = out)]_vars

C8_Witness ==
    /\ pc = "error"
    /\ out # <<>>
    /\ block # None /\ block[1] # <<>>
    /\ outFile = "untouched"

====
